---- MODULE Spec2Model ----
(***************************************************************************)
(* Travel advisory agent: the plan -> route -> execute -> verify -> repair *)
(* control loop of backend/app/agent and the caching/retrying tool wrapper *)
(* of backend/app/tools/base.py.                                           *)
(*                                                                         *)
(* Modelling conventions                                                   *)
(*  - a Python dict is a sequence of <<key, value>> pairs in insertion     *)
(*    order (iteration order is observable in the Verifier's output);      *)
(*  - a working-set key f"{tool}_{id}_output" is the sequence of its       *)
(*    "_"-separated parts, and `"w" in key` holds when a part is w;        *)
(*  - the LLM calls of Planner and RepairReplan and the bodies of the      *)
(*    tools' _execute are opaque: their answers are drawn from small sets; *)
(*  - money is in whole USD, time in minutes.                              *)
(***************************************************************************)
EXTENDS Integers, Sequences, FiniteSets, TLC

VARIABLES
    node,            \* graph node about to run (graph.py edges)
    constraints,     \* AgentState["constraints"]
    plan,            \* AgentState["plan"]: sequence of PlanStep
    working_set,     \* AgentState["working_set"]: ordered dict
    tool_calls,      \* AgentState["tool_calls"]: sequence of ToolCall
    violations,      \* AgentState["violations"]
    budget_counters, \* AgentState["budget_counters"]
    cache,           \* BaseTool._cache of every registered tool
    now,             \* wall clock (datetime.now()), minutes
    tasks,           \* coroutines of the running asyncio.gather
    obs              \* observations of the last step (history only)

vars == <<node, constraints, plan, working_set, tool_calls, violations,
          budget_counters, cache, now, tasks, obs>>

----------------------------------------------------------------------------
(* Bounds *)

MaxToolCalls == 2
MaxClock == 20
MaxSuggestions == 1
MaxInvocations == 3

(* Program constants *)

CacheTTL == 15
MaxRetries == 1
TickMinutes == 10

----------------------------------------------------------------------------
(* Generic helpers *)

Range(s) == {s[i] : i \in 1..Len(s)}

RECURSIVE SumSeq(_)
SumSeq(s) == IF s = <<>> THEN 0 ELSE Head(s) + SumSeq(Tail(s))

RECURSIVE Flatten(_)
Flatten(ss) == IF ss = <<>> THEN <<>> ELSE Head(ss) \o Flatten(Tail(ss))

----------------------------------------------------------------------------
(* Python dicts as ordered sequences of <<key, value>> pairs *)

DictKeys(d) == {d[i][1] : i \in 1..Len(d)}

\* position of key k in d, 0 when absent
DictIndex(d, k) ==
    LET S == {i \in 1..Len(d) : d[i][1] = k}
    IN IF S = {} THEN 0 ELSE CHOOSE i \in S : \A j \in S : i <= j

DictGet(d, k) == d[DictIndex(d, k)][2]

\* variant of DictPut: {k: v} in place of {**d, k: v}
DictPut_fresh(d, k, v) == << <<k, v>> >>

\* d[k] = v : an existing key keeps its position, a new key goes last
DictPut(d, k, v) ==
    LET i == DictIndex(d, k)
    IN IF i = 0 THEN Append(d, <<k, v>>)
       ELSE [d EXCEPT ![i] = <<k, v>>]

RECURSIVE DictUpdate(_, _)
\* d.update(delta)
DictUpdate(d, delta) ==
    IF delta = <<>> THEN d
    ELSE DictUpdate(DictPut(d, Head(delta)[1], Head(delta)[2]), Tail(delta))

----------------------------------------------------------------------------
(* Values *)

\* Python None, and the truth value of a dict-or-None
None == [none |-> TRUE]

Truthy(v) == v # None /\ DOMAIN v # {}

----------------------------------------------------------------------------
(* Tools: registry.py, base.py and the input schemas of the tools *)

Registered == {"flights", "lodging", "events", "weather", "transit", "rag"}

\* required fields of each tool's input schema (Field(...))
RequiredFields(t) ==
    CASE t = "flights" -> {"origin", "destination", "departure_date"}
      [] t = "lodging" -> {"destination", "check_in", "check_out"}
      [] t = "events"  -> {"destination", "start_date", "end_date"}
      [] t = "weather" -> {"latitude", "longitude", "start_date", "end_date"}
      [] t = "transit" -> {"origin", "destination"}
      [] t = "rag"     -> {"query", "org_id"}

DateFields == {"departure_date", "check_in", "check_out", "start_date", "end_date"}

Dates == {"2025-10-01", "2025-10-08"}

\* variant of ValidInput: only the presence of the required fields is checked
ValidInput_fields_only(t, args) == RequiredFields(t) \subseteq DictKeys(args)

\* self.get_input_schema()(**input_data) does not raise
ValidInput(t, args) ==
    /\ RequiredFields(t) \subseteq DictKeys(args)
    /\ \A i \in 1..Len(args) : args[i][1] \in DateFields => args[i][2] \in Dates

\* argument names in lexicographic order (json.dumps(..., sort_keys=True))
ArgNames == <<"check_in", "check_out", "departure_date", "destination",
              "end_date", "latitude", "longitude", "org_id", "origin",
              "query", "start_date">>

\* BaseTool._get_cache_key: the items of the dict in sorted key order
\* (md5 of the serialization is taken to be injective)
_get_cache_key(input_data) ==
    LET present == SelectSeq(ArgNames, LAMBDA k : k \in DictKeys(input_data))
    IN [i \in 1..Len(present) |-> <<present[i], DictGet(input_data, present[i])>>]

\* a tool whose _execute really suspends (awaits network I/O)
Suspends(t) == t = "weather"

ToolOutput(success, data, error) ==
    [success |-> success, data |-> data, error |-> error, cached |-> FALSE]

Flight(price, overnight) == [price_usd |-> price, overnight |-> overnight]

\* what one call of a tool's _execute can do: return an output or raise
ExecuteOutcomes(t) ==
    CASE t = "flights" ->
            {[raised |-> FALSE, output |-> ToolOutput(TRUE, [flights |-> fl], None)] :
                fl \in {<<Flight(1200, FALSE)>>, <<Flight(400, FALSE), Flight(200, TRUE)>>}}
      [] t = "lodging" ->
            {[raised |-> FALSE, output |-> ToolOutput(TRUE, [lodgings |-> ls], None)] :
                ls \in {<<[total_price |-> 900]>>}}
      [] t = "events" ->
            {[raised |-> FALSE, output |-> ToolOutput(TRUE, [events |-> ev], None)] :
                ev \in {<<[kid_friendly |-> TRUE, museum |-> FALSE]>>,
                        <<[kid_friendly |-> FALSE, museum |-> TRUE]>>}}
      [] t = "weather" ->
            {[raised |-> FALSE, output |-> ToolOutput(TRUE, [daily_forecast |-> df], None)] :
                df \in {<<[is_rainy |-> TRUE]>>, <<[is_rainy |-> FALSE]>>}}
      [] t = "transit" ->
            {[raised |-> FALSE, output |-> ToolOutput(TRUE, [routes |-> <<>>], None)]}
      [] t = "rag" ->
            {[raised |-> FALSE, output |-> ToolOutput(TRUE, [results |-> <<>>], None)],
             [raised |-> FALSE,
              output |-> ToolOutput(FALSE, None, [msg |-> "RAG search failed"])]}

\* a call of _execute that raises an exception whose str() is e
Raised(e) == [raised |-> TRUE, output |-> None, error |-> e]

\* the exceptions one call of a tool's _execute can raise
Raises(t) ==
    {Raised(e) : e \in IF Suspends(t) THEN {"timeout", "connection reset"}
                       ELSE {"error"}}

----------------------------------------------------------------------------
(* Agent state: state.py *)

PlanStep(id, tool_name, args, dependencies) ==
    [id |-> id, tool_name |-> tool_name, args |-> args,
     dependencies |-> dependencies, status |-> "pending"]

Constraint(type, value) == [type |-> type, value |-> value, is_hard |-> TRUE]

Violation(constraint_type, description, severity) ==
    [constraint_type |-> constraint_type, description |-> description,
     severity |-> severity]

\* BudgetCounter(): every category starts at 0
BudgetCounter ==
    [flights |-> 0, lodging |-> 0, activities |-> 0, transport |-> 0,
     food |-> 0, total |-> 0]

ToolCall(tool_name, args, result, error) ==
    [tool_name |-> tool_name, args |-> args, result |-> result, error |-> error]

\* variant of StepKey: the step id before the tool name
StepKey_swapped(step, suffix) == <<step.id, step.tool_name, suffix>>

\* the working-set key f"{tool_name}_{id}_{suffix}", by its parts
StepKey(step, suffix) == <<step.tool_name, step.id, suffix>>

\* `word in key` for the marker words the Verifier looks for
KeyHas(key, word) == \E i \in 1..Len(key) : key[i] = word

----------------------------------------------------------------------------
(* Verifier: verifier.py *)

\* `word in p.lower()` for the preference texts of the model
PrefContains(p, word) ==
    \/ word = "kid-friendly" /\ p \in {"kid-friendly", "Kid-Friendly activities"}
    \/ word = "museum" /\ p \in {"art museums"}

\* values of the working set that pass
\*   marker in key and "output" in key and value and field in value
Outputs(ws, marker, field) ==
    LET hit == SelectSeq(ws, LAMBDA e : /\ KeyHas(e[1], marker)
                                        /\ KeyHas(e[1], "output")
                                        /\ Truthy(e[2])
                                        /\ field \in DOMAIN e[2])
    IN [i \in 1..Len(hit) |-> hit[i][2]]

AllFlights(ws) ==
    LET o == Outputs(ws, "flights", "flights")
    IN Flatten([i \in 1..Len(o) |-> o[i].flights])

AllLodgings(ws) ==
    LET o == Outputs(ws, "lodging", "lodgings")
    IN Flatten([i \in 1..Len(o) |-> o[i].lodgings])

AllEvents(ws) ==
    LET o == Outputs(ws, "events", "events")
    IN Flatten([i \in 1..Len(o) |-> o[i].events])

FlightsCost(ws) ==
    LET f == AllFlights(ws) IN SumSeq([i \in 1..Len(f) |-> f[i].price_usd])

LodgingCost(ws) ==
    LET l == AllLodgings(ws) IN SumSeq([i \in 1..Len(l) |-> l[i].total_price])

\* next((c.value for c in constraints if c.type == BUDGET), None); 0 = None
BudgetLimit(cs) ==
    LET S == {i \in 1..Len(cs) : cs[i].type = "budget"}
    IN IF S = {} THEN 0 ELSE cs[CHOOSE i \in S : \A j \in S : i <= j].value

\* variant of _check_budget_counters: the category sums start from the
\* previous counters instead of 0
_check_budget_counters_incremental(cs, ws, bc) ==
    IF BudgetLimit(cs) = 0 THEN bc
    ELSE LET f == bc.flights + FlightsCost(ws)
             l == bc.lodging + LodgingCost(ws)
         IN [bc EXCEPT !.flights = f, !.lodging = l,
                       !.total = f + l + bc.activities + bc.transport + bc.food]

\* variant of _check_budget_counters: total adds the category sums to the
\* previous total
_check_budget_counters_running_total(cs, ws, bc) ==
    IF BudgetLimit(cs) = 0 THEN bc
    ELSE LET f == FlightsCost(ws)
             l == LodgingCost(ws)
         IN [bc EXCEPT !.flights = f, !.lodging = l, !.total = f + l + bc.total]

\* the counters _check_budget leaves behind
_check_budget_counters(cs, ws, bc) ==
    IF BudgetLimit(cs) = 0 THEN bc
    ELSE LET f == FlightsCost(ws)
             l == LodgingCost(ws)
         IN [bc EXCEPT !.flights = f, !.lodging = l,
                       !.total = f + l + bc.activities + bc.transport + bc.food]

\* variant of _check_budget: total >= budget_limit
_check_budget_ge(cs, ws, bc) ==
    LET limit == BudgetLimit(cs)
        total == _check_budget_counters(cs, ws, bc).total
    IN IF limit # 0 /\ total >= limit
       THEN <<Violation("budget", <<"exceeds", total, limit>>, "critical")>>
       ELSE <<>>

\* the violations _check_budget appends
_check_budget(cs, ws, bc) ==
    LET limit == BudgetLimit(cs)
        total == _check_budget_counters(cs, ws, bc).total
    IN IF limit # 0 /\ total > limit
       THEN <<Violation("budget", <<"exceeds", total, limit>>, "critical")>>
       ELSE <<>>

_check_feasibility(cs, ws) ==
    LET avoid_overnight ==
            \E i \in 1..Len(cs) : /\ cs[i].type = "preferences"
                                  /\ cs[i].value = "Avoid overnight flights"
        late == SelectSeq(AllFlights(ws), LAMBDA f : f.overnight)
    IN IF avoid_overnight
       THEN [i \in 1..Len(late) |->
                Violation("preferences", <<"overnight", late[i].price_usd, 0>>, "warning")]
       ELSE <<>>

_check_weather_sensitivity(cs, ws) ==
    LET o == Outputs(ws, "weather", "daily_forecast")
        weather_forecast == IF o = <<>> THEN <<>> ELSE o[1].daily_forecast
        rainy == SelectSeq(weather_forecast, LAMBDA d : d.is_rainy)
    IN [i \in 1..Len(rainy) |-> Violation("weather", <<"rain", i, 0>>, "info")]

_check_preferences(cs, ws) ==
    LET prefs == SelectSeq(cs, LAMBDA c : c.type = "preferences")
        Pref(word) == \E i \in 1..Len(prefs) : PrefContains(prefs[i].value, word)
        ev == AllEvents(ws)
        found_kid_friendly == \E i \in 1..Len(ev) : ev[i].kid_friendly
        found_museum == \E i \in 1..Len(ev) : ev[i].museum
    IN (IF Pref("kid-friendly") /\ ~found_kid_friendly
        THEN <<Violation("preferences", <<"no kid-friendly", 0, 0>>, "warning")>>
        ELSE <<>>)
       \o
       (IF Pref("museum") /\ ~found_museum
        THEN <<Violation("preferences", <<"no museums", 0, 0>>, "warning")>>
        ELSE <<>>)

\* Verifier.__call__: the two outputs of one pass
VerifierViolations(cs, ws, bc) ==
    _check_budget(cs, ws, bc) \o _check_feasibility(cs, ws)
        \o _check_weather_sensitivity(cs, ws) \o _check_preferences(cs, ws)

VerifierCounters(cs, ws, bc) == _check_budget_counters(cs, ws, bc)

----------------------------------------------------------------------------
(* Inputs of the model: what the extractor and the LLM calls may answer *)

FlightArgs ==
    << <<"origin", "LAX">>, <<"destination", "NRT">>,
       <<"departure_date", "2025-10-01">> >>

LodgingArgs ==
    << <<"destination", "Kyoto">>, <<"check_in", "2025-10-01">>,
       <<"check_out", "2025-10-08">> >>

WeatherArgs ==
    << <<"latitude", "35.0">>, <<"longitude", "135.7">>,
       <<"start_date", "2025-10-01">>, <<"end_date", "2025-10-08">> >>

\* the same items as WeatherArgs, inserted in another order
WeatherArgsReordered ==
    << <<"end_date", "2025-10-08">>, <<"start_date", "2025-10-01">>,
       <<"longitude", "135.7">>, <<"latitude", "35.0">> >>

\* fails LodgingSearchInput: check_out is missing
BadLodgingArgs ==
    << <<"destination", "Kyoto">>, <<"check_in", "2025-10-01">> >>

RagArgs == << <<"query", "travel planning">>, <<"org_id", "1">> >>

PlanAB ==
    << PlanStep("A", "flights", FlightArgs, <<>>),
       PlanStep("B", "lodging", LodgingArgs, <<"A">>) >>

PlanWW ==
    << PlanStep("W1", "weather", WeatherArgs, <<>>),
       PlanStep("W2", "weather", WeatherArgsReordered, <<>>) >>

PlanAX ==
    << PlanStep("A", "flights", FlightArgs, <<>>),
       PlanStep("X", "teleport", <<>>, <<>>) >>

PlanAL ==
    << PlanStep("A", "flights", FlightArgs, <<>>),
       PlanStep("L", "lodging", BadLodgingArgs, <<>>) >>

\* D waits for A and for an id that names no step
PlanAD ==
    << PlanStep("A", "flights", FlightArgs, <<>>),
       PlanStep("D", "lodging", LodgingArgs, <<"A", "ghost">>) >>

\* plans an LLM answer of the Planner may hold
LLMPlans == {PlanAB, PlanWW, PlanAX, PlanAL, PlanAD}

\* constraint lists the extractor may produce (budget first, then preferences)
ConstraintChoices ==
    { <<>>,
      <<Constraint("budget", 2000)>>,
      <<Constraint("preferences", "Avoid overnight flights")>>,
      <<Constraint("budget", 1000), Constraint("preferences", "Avoid overnight flights")>> }

Modify(step_id, new_args) ==
    [action |-> "modify", step_id |-> step_id, new_args |-> new_args, new_step |-> None]

Remove(step_id) ==
    [action |-> "remove", step_id |-> step_id, new_args |-> <<>>, new_step |-> None]

Add(new_step) ==
    [action |-> "add", step_id |-> new_step.id, new_args |-> <<>>, new_step |-> new_step]

\* single suggestions an LLM answer of RepairReplan may hold
Suggestions ==
    { Modify("A", << <<"departure_date", "2025-10-08">> >>),
      Modify("B", <<>>),
      Modify("Z", <<>>),
      Remove("A"),
      Add(PlanStep("C", "lodging", LodgingArgs, <<>>)) }

RECURSIVE SeqsUpTo(_, _)
\* sequences over S of length at most n
SeqsUpTo(S, n) ==
    IF n = 0 THEN {<<>>}
    ELSE LET shorter == SeqsUpTo(S, n - 1)
         IN shorter \cup {Append(q, x) : q \in shorter, x \in S}

SuggestionLists == SeqsUpTo(Suggestions, MaxSuggestions)

----------------------------------------------------------------------------
(* Initial state: api/agent.py start_agent_run, with the state.py defaults *)

\* obs: the node that ran last, the Router's executable_steps, one entry per
\* BaseTool.execute call, the suggestions of the last repair, the ids of the
\* steps RepairReplan has removed, and (verifier runs only) the tool outputs
\* put into the working set and the result of the Verifier pass before the
\* current one
NoObs ==
    [invocations |-> <<>>, executable_steps |-> <<>>, prev |-> "START",
     given |-> <<>>, verified |-> <<>>, suggestions |-> <<>>, removed |-> {}]

Init ==
    /\ node = "extract_constraints"
    /\ constraints = <<>>
    /\ plan = <<>>
    /\ working_set = <<>>
    /\ tool_calls = <<>>
    /\ violations = <<>>
    /\ budget_counters = BudgetCounter
    /\ cache = [t \in Registered |-> {}]
    /\ now = 0
    /\ tasks = <<>>
    /\ obs = NoObs

----------------------------------------------------------------------------
(* The fixed edges of the graph: graph.py add_edge *)

\* variant of Edge: repair goes straight on to route_tools
Edge_repair_to_route(n) ==
    CASE n = "extract_constraints" -> "plan"
      [] n = "plan" -> "route_tools"
      [] n = "route_tools" -> "execute_tools"
      [] n = "execute_tools" -> "verify"
      [] n = "repair" -> "route_tools"

Edge(n) ==
    CASE n = "extract_constraints" -> "plan"
      [] n = "plan" -> "route_tools"
      [] n = "route_tools" -> "execute_tools"
      [] n = "execute_tools" -> "verify"
      [] n = "repair" -> "plan"

----------------------------------------------------------------------------
(* extract_constraints: nodes.py IntentConstraintExtractor.__call__ *)

IntentConstraintExtractor ==
    /\ node = "extract_constraints"
    /\ \E cs \in ConstraintChoices : constraints' = cs
    /\ working_set' = << <<<<"extracted", "data">>, [user_message |-> "trip"]>> >>
    /\ node' = Edge("extract_constraints")
    /\ obs' = [obs EXCEPT !.prev = "extract_constraints"]
    /\ UNCHANGED <<plan, tool_calls, violations, budget_counters, cache, now, tasks>>

----------------------------------------------------------------------------
(* plan: planner.py Planner.__call__ *)

\* the fallback plan of the Planner (no LLM, or the LLM call raised)
simple_plan == << PlanStep("rag_search", "rag", RagArgs, <<>>) >>

\* new_plan_steps of an LLM answer (a first plan, or the current plan kept),
\* or the fallback plan
PlannerAnswers(current_plan) ==
    (IF current_plan = <<>> THEN LLMPlans ELSE {current_plan}) \cup {simple_plan}

Planner ==
    /\ node = "plan"
    /\ \E answer \in PlannerAnswers(plan) :
          /\ plan' = answer
          /\ working_set' =
                DictPut(working_set, <<"planner", "reasoning">>,
                        [text |-> IF answer = simple_plan THEN "fallback" ELSE "llm"])
    /\ node' = Edge("plan")
    /\ obs' = [obs EXCEPT !.prev = "plan", !.suggestions = <<>>]
    /\ UNCHANGED <<constraints, tool_calls, violations, budget_counters, cache,
                   now, tasks>>

----------------------------------------------------------------------------
(* route_tools: router.py Router.__call__ *)

\* next((s for s in plan if s.id == dep_id), None), as an index (0 = None)
FindStep(p, id) ==
    LET S == {i \in 1..Len(p) : p[i].id = id}
    IN IF S = {} THEN 0 ELSE CHOOSE i \in S : \A j \in S : i <= j

\* variant of dependencies_met: an id that names no step is skipped
dependencies_met_skip_missing(p, step) ==
    \A d \in 1..Len(step.dependencies) :
        LET dep == FindStep(p, step.dependencies[d])
        IN dep = 0 \/ p[dep].status = "completed"

\* variant of dependencies_met: a dependency only has to be in the plan
dependencies_met_present(p, step) ==
    \A d \in 1..Len(step.dependencies) : FindStep(p, step.dependencies[d]) # 0

dependencies_met(p, step) ==
    \A d \in 1..Len(step.dependencies) :
        LET dep == FindStep(p, step.dependencies[d])
        IN dep # 0 /\ p[dep].status = "completed"

\* variant of executable_steps: one step at a time, the first that is ready
executable_steps_first(p) ==
    LET S == {i \in 1..Len(p) : p[i].status = "pending" /\ dependencies_met(p, p[i])}
    IN {i \in S : \A j \in S : i <= j}

\* indices of the steps the Router selects
executable_steps(p) ==
    {i \in 1..Len(p) : p[i].status = "pending" /\ dependencies_met(p, p[i])}

Router ==
    /\ node = "route_tools"
    /\ Len(tool_calls) + Cardinality(executable_steps(plan)) <= MaxToolCalls
    /\ plan' = [i \in 1..Len(plan) |->
                  IF i \in executable_steps(plan)
                  THEN [plan[i] EXCEPT !.status = "running"] ELSE plan[i]]
    /\ node' = Edge("route_tools")
    /\ obs' = [obs EXCEPT !.prev = "route_tools",
                          !.executable_steps =
                              SelectSeq([i \in 1..Len(plan) |-> i],
                                        LAMBDA i : i \in executable_steps(plan))]
    /\ UNCHANGED <<constraints, working_set, tool_calls, violations,
                   budget_counters, cache, now, tasks>>

----------------------------------------------------------------------------
(* The tool wrapper: base.py BaseTool *)

CacheEntries(c, cache_key) == {e \in c : e.key = cache_key}

\* BaseTool._cache_result: self._cache[cache_key] = (result, datetime.now())
_cache_result(c, cache_key, result, t) ==
    (c \ CacheEntries(c, cache_key))
        \cup {[key |-> cache_key, result |-> result, timestamp |-> t]}

\* variant of Fresh: an entry of exactly the TTL still counts
Fresh_le(c, cache_key, t) ==
    {e \in CacheEntries(c, cache_key) : t - e.timestamp <= CacheTTL}

\* the entry _get_cached_result returns at time t: present and younger than the TTL
Fresh(c, cache_key, t) ==
    {e \in CacheEntries(c, cache_key) : t - e.timestamp < CacheTTL}

\* the cache after _get_cached_result: a hit is flagged cached in place, an
\* expired entry is deleted
_get_cached_result(c, cache_key, t) ==
    {IF e \in Fresh(c, cache_key, t)
     THEN [e EXCEPT !.result.cached = TRUE] ELSE e :
        e \in c \ (CacheEntries(c, cache_key) \ Fresh(c, cache_key, t))}

ValidationFailed ==
    ToolOutput(FALSE, None, [msg |-> "Input validation failed"])

\* f"Tool execution failed after {max_retries + 1} attempts: {last_error}"
RetriesExhausted(max_retries, last_error) ==
    ToolOutput(FALSE, None,
               [msg |-> "Tool execution failed after", attempts |-> max_retries + 1,
                last_error |-> last_error])

\* variant of cacheable: every result that _execute returns is stored
cacheable_any(result) == TRUE

\* line 92: if result.success
cacheable(result) == result.success

\* variant of may_retry: attempt <= max_retries
may_retry_le(attempt, max_retries) == attempt <= max_retries

\* line 99: an attempt that raised is followed by a sleep and another attempt
may_retry(attempt, max_retries) == attempt < max_retries

\* a coroutine of BaseTool.execute for plan[step]; once started it is logged
\* as obs.invocations[inv]
Task(step) ==
    [step |-> step, inv |-> 0, pc |-> "created", attempt |-> 0,
     result |-> ToolOutput(FALSE, None, None)]

\* log entry of one call of BaseTool.execute: runs counts the calls of
\* _execute, errors holds what the attempts raised, sleeps counts the jitter
\* sleeps, batch is the number of tool calls recorded before its batch, stamps
\* holds the timestamp of the cache entry its lookup found
Invocation(t, cache_key, start, valid, batch, stamps) ==
    [tool |-> t, key |-> cache_key, start |-> start, valid |-> valid,
     batch |-> batch, stamps |-> stamps, runs |-> 0, errors |-> <<>>, sleeps |-> 0,
     done |-> FALSE, success |-> FALSE, cached |-> FALSE]

Returned(task, result) == [task EXCEPT !.pc = "done", !.result = result]

\* one call of self._execute by task k has come back with outcome o (lines
\* 88-103 of execute); c, ob, tk are the cache, log and tasks so far
AfterExecute(k, o, c, ob, tk) ==
    LET task == tk[k]
        t == plan[task.step].tool_name
        cache_key == _get_cache_key(plan[task.step].args)
        ran == [ob EXCEPT !.invocations[task.inv].runs = @ + 1]
    IN IF ~o.raised
       THEN /\ tasks' = [tk EXCEPT ![k] = Returned(task, o.output)]
            /\ cache' = IF cacheable(o.output)
                        THEN [c EXCEPT ![t] = _cache_result(@, cache_key, o.output, now)]
                        ELSE c
            /\ obs' = [ran EXCEPT !.invocations[task.inv].done = TRUE,
                                  !.invocations[task.inv].success = o.output.success]
       ELSE LET raised == [ran EXCEPT !.invocations[task.inv].errors =
                                              Append(@, o.error)]
            IN /\ cache' = c
               /\ IF may_retry(task.attempt, MaxRetries)
                  THEN /\ tasks' = [tk EXCEPT ![k].pc = "sleeping"]
                       /\ obs' = [raised EXCEPT !.invocations[task.inv].sleeps = @ + 1]
                  ELSE /\ tasks' = [tk EXCEPT ![k] =
                              Returned(task, RetriesExhausted(MaxRetries, o.error))]
                       /\ obs' = [raised EXCEPT !.invocations[task.inv].done = TRUE]

\* task k reaches `await self._execute(validated_input)`: a tool that awaits
\* I/O suspends there, any other tool runs through to its outcome
CallExecute(k, c, ob, tk) ==
    LET t == plan[tk[k].step].tool_name
    IN IF Suspends(t)
       THEN /\ tasks' = [tk EXCEPT ![k].pc = "awaiting"]
            /\ cache' = c
            /\ obs' = ob
       ELSE \E o \in ExecuteOutcomes(t) \cup Raises(t) : AfterExecute(k, o, c, ob, tk)

----------------------------------------------------------------------------
(* execute_tools: tool_executor.py ToolExecutor.__call__ *)

steps_to_execute(p) ==
    SelectSeq([i \in 1..Len(p) |-> i], LAMBDA i : p[i].status = "running")

\* lines 17-26: collect the running steps and hand one coroutine per step to
\* asyncio.gather; with no running step the node returns {}
ExecuteDispatch ==
    /\ node = "execute_tools"
    /\ tasks = <<>>
    /\ LET todo == steps_to_execute(plan)
       IN IF todo = <<>>
          THEN /\ node' = Edge("execute_tools")
               /\ tasks' = tasks
               /\ obs' = [obs EXCEPT !.prev = "execute_tools"]
          ELSE /\ node' = node
               /\ tasks' = [k \in 1..Len(todo) |-> Task(todo[k])]
               /\ obs' = obs
    /\ UNCHANGED <<constraints, plan, working_set, tool_calls, violations,
                   budget_counters, cache, now>>

\* _execute_single_tool up to its first suspension: registry lookup, cache
\* lookup, input validation, first call of _execute. The event loop starts the
\* coroutines in the order they were given to gather.
TaskStart(k) ==
    /\ node = "execute_tools"
    /\ k \in 1..Len(tasks)
    /\ tasks[k].pc = "created"
    /\ \A j \in 1..(k - 1) : tasks[j].pc # "created"
    /\ LET step == plan[tasks[k].step]
           t == step.tool_name
       IN IF t \notin Registered
          THEN \* get_tool raises ValueError; gather re-raises it and so does the node
               /\ node' = "aborted"
               /\ tasks' = <<>>
               /\ obs' = [obs EXCEPT !.prev = "execute_tools"]
               /\ cache' = cache
          ELSE LET cache_key == _get_cache_key(step.args)
                   hit == Fresh(cache[t], cache_key, now)
                   c == [cache EXCEPT ![t] = _get_cached_result(@, cache_key, now)]
                   inv == Len(obs.invocations) + 1
                   ob == [obs EXCEPT !.invocations =
                              Append(@, Invocation(t, cache_key, now,
                                  ValidInput(t, step.args), Len(tool_calls),
                                  {e.timestamp : e \in CacheEntries(cache[t], cache_key)}))]
                   tk == [tasks EXCEPT ![k].inv = inv]
               IN /\ node' = node
                  /\ IF hit # {}
                     THEN /\ cache' = c
                          /\ tasks' = [tk EXCEPT ![k] =
                                Returned(tk[k], [(CHOOSE e \in hit : TRUE).result
                                                    EXCEPT !.cached = TRUE])]
                          /\ obs' = [ob EXCEPT !.invocations[inv].done = TRUE,
                                               !.invocations[inv].success = TRUE,
                                               !.invocations[inv].cached = TRUE]
                     ELSE IF ~ValidInput(t, step.args)
                     THEN /\ cache' = c
                          /\ tasks' = [tk EXCEPT ![k] = Returned(tk[k], ValidationFailed)]
                          /\ obs' = [ob EXCEPT !.invocations[inv].done = TRUE]
                     ELSE CallExecute(k, c, ob, tk)
    /\ UNCHANGED <<constraints, plan, working_set, tool_calls, violations,
                   budget_counters, now>>

\* gather has started every coroutine of the batch: the event loop runs each
\* up to its first suspension before it handles any I/O or timer
AllStarted(tk) == \A j \in 1..Len(tk) : tk[j].pc # "created"

\* the _execute that task k awaits (line 88, under no timeout) comes back
ExecuteReturns(k) ==
    /\ node = "execute_tools"
    /\ k \in 1..Len(tasks)
    /\ AllStarted(tasks)
    /\ tasks[k].pc = "awaiting"
    /\ LET t == plan[tasks[k].step].tool_name
       IN \E o \in ExecuteOutcomes(t) \cup Raises(t) :
             AfterExecute(k, o, cache, obs, tasks)
    /\ UNCHANGED <<node, constraints, plan, working_set, tool_calls, violations,
                   budget_counters, now>>

\* the jitter sleep of task k ends and the next attempt calls _execute
SleepEnds(k) ==
    /\ node = "execute_tools"
    /\ k \in 1..Len(tasks)
    /\ AllStarted(tasks)
    /\ tasks[k].pc = "sleeping"
    /\ CallExecute(k, cache, obs,
                   [tasks EXCEPT ![k].attempt = @ + 1, ![k].pc = "running"])
    /\ UNCHANGED <<node, constraints, plan, working_set, tool_calls, violations,
                   budget_counters, now>>

\* a suspended coroutine goes on
TaskResume(k) == ExecuteReturns(k) \/ SleepEnds(k)

\* time passes between two batches
Tick ==
    /\ node = "execute_tools"
    /\ tasks = <<>>
    /\ now + TickMinutes <= MaxClock
    /\ now' = now + TickMinutes
    /\ UNCHANGED <<node, constraints, plan, working_set, tool_calls, violations,
                   budget_counters, cache, tasks, obs>>

RECURSIVE Record(_, _, _, _)
\* lines 28-47: for step, tool_output in zip(steps_to_execute, results), from
\* task k on; st = <<plan, tool_calls, working_set>> so far
Record(k, p, tc, ws) ==
    IF k > Len(tasks) THEN <<p, tc, ws>>
    ELSE LET i == tasks[k].step
             step == p[i]
             tool_output == tasks[k].result
             new_tool_call == ToolCall(step.tool_name, step.args,
                                       tool_output.data, tool_output.error)
         IN IF tool_output.success
            THEN Record(k + 1, [p EXCEPT ![i].status = "completed"],
                        Append(tc, new_tool_call),
                        DictPut(ws, StepKey(step, "output"), tool_output.data))
            ELSE Record(k + 1, [p EXCEPT ![i].status = "failed"],
                        Append(tc, new_tool_call),
                        DictPut(ws, StepKey(step, "error"), tool_output.error))

\* variant of gathered: the first result is enough
gathered_first(tk) == \E k \in 1..Len(tk) : tk[k].pc = "done"

\* await asyncio.gather(...) returns: every coroutine has returned
gathered(tk) == \A k \in 1..Len(tk) : tk[k].pc = "done"

\* gather has every result: record them and return
ExecuteJoin ==
    /\ node = "execute_tools"
    /\ tasks # <<>>
    /\ gathered(tasks)
    /\ LET st == Record(1, plan, tool_calls, working_set)
       IN /\ plan' = st[1]
          /\ tool_calls' = st[2]
          /\ working_set' = st[3]
    /\ tasks' = <<>>
    /\ node' = Edge("execute_tools")
    /\ obs' = [obs EXCEPT !.prev = "execute_tools"]
    /\ UNCHANGED <<constraints, violations, budget_counters, cache, now>>

ToolExecutor ==
    \/ ExecuteDispatch
    \/ \E k \in 1..Len(tasks) : TaskStart(k)
    \/ \E k \in 1..Len(tasks) : TaskResume(k)
    \/ ExecuteJoin

----------------------------------------------------------------------------
(* verify: verifier.py Verifier.__call__, then the edge _is_repair_needed *)

\* variant of _is_repair_needed: only a critical violation asks for repair
_is_repair_needed_critical(v) ==
    IF \E i \in 1..Len(v) : v[i].severity = "critical" THEN "repair" ELSE "continue"

\* variant of _is_repair_needed: the test is inverted
_is_repair_needed_inverted(v) == IF v = <<>> THEN "repair" ELSE "continue"

_is_repair_needed(v) == IF v # <<>> THEN "repair" ELSE "continue"

Verifier ==
    /\ node = "verify"
    /\ violations' = VerifierViolations(constraints, working_set, budget_counters)
    /\ budget_counters' = VerifierCounters(constraints, working_set, budget_counters)
    /\ node' = IF _is_repair_needed(violations') = "repair"
               THEN "repair" ELSE "synthesis_decision"
    /\ obs' = [obs EXCEPT !.prev = "verify"]
    /\ UNCHANGED <<constraints, plan, working_set, tool_calls, cache, now, tasks>>

----------------------------------------------------------------------------
(* repair: repair.py RepairReplan.__call__ *)

\* variant of ApplySuggestion: modify puts new_args in place of the args
ApplySuggestion_replace_args(p, sg) ==
    CASE sg.action = "modify" ->
            LET i == FindStep(p, sg.step_id)
            IN IF i = 0 THEN p
               ELSE [p EXCEPT ![i].args = sg.new_args, ![i].status = "pending"]
      [] sg.action = "remove" -> SelectSeq(p, LAMBDA st : st.id # sg.step_id)
      [] sg.action = "add" ->
            IF sg.new_step # None THEN Append(p, sg.new_step) ELSE p

\* one suggestion applied to updated_plan (lines 55-66)
ApplySuggestion(p, sg) ==
    CASE sg.action = "modify" ->
            LET i == FindStep(p, sg.step_id)
            IN IF i = 0 THEN p
               ELSE [p EXCEPT ![i].args = DictUpdate(@, sg.new_args),
                              ![i].status = "pending"]
      [] sg.action = "remove" -> SelectSeq(p, LAMBDA st : st.id # sg.step_id)
      [] sg.action = "add" ->
            IF sg.new_step # None THEN Append(p, sg.new_step) ELSE p

RECURSIVE ApplySuggestions(_, _)
ApplySuggestions(p, sgs) ==
    IF sgs = <<>> THEN p
    ELSE ApplySuggestions(ApplySuggestion(p, Head(sgs)), Tail(sgs))

\* the ids of the steps of a plan
StepIds(p) == {p[i].id : i \in 1..Len(p)}

\* variant of cleared_violations: the list is passed on as it is
cleared_violations_kept(v) == v

\* the "violations" value RepairReplan returns after a repair attempt
cleared_violations(v) == <<>>

RepairReplan ==
    /\ node = "repair"
    /\ IF violations = <<>>
       THEN /\ UNCHANGED <<plan, violations, working_set>>
            /\ obs' = [obs EXCEPT !.prev = "repair"]
       ELSE \E suggestions \in SuggestionLists :
               /\ plan' = ApplySuggestions(plan, suggestions)
               /\ violations' = cleared_violations(violations)
               /\ working_set' = DictPut(working_set, <<"repair", "reasoning">>,
                                         [text |-> "llm"])
               /\ obs' = [obs EXCEPT !.prev = "repair", !.suggestions = suggestions,
                                     !.removed = @ \cup (StepIds(plan) \
                                        StepIds(ApplySuggestions(plan, suggestions)))]
    /\ node' = Edge("repair")
    /\ UNCHANGED <<constraints, tool_calls, budget_counters, cache, now, tasks>>

----------------------------------------------------------------------------
(* synthesis_decision: graph.py *)

\* the keys of AgentState; no node returns any other key
AgentStateKeys ==
    {"messages", "constraints", "plan", "working_set", "citations",
     "tool_calls", "violations", "budget_counters", "done", "trace_id",
     "user_id", "org_id", "current_step", "progress_events", "error",
     "retry_count", "final_itinerary", "final_markdown"}

_should_synthesize(p, v) ==
    IF \E i \in 1..Len(p) : p[i].status \in {"pending", "running"} THEN "plan"
    ELSE IF (\A i \in 1..Len(p) : p[i].status \in {"completed", "failed"}) /\ v = <<>>
    THEN "synthesize"
    ELSE "plan"

\* variant of synthesis_edge: x.get("should_synthesize", True)
synthesis_edge_default_true(p, v) ==
    IF "should_synthesize" \in AgentStateKeys /\ _should_synthesize(p, v) # "synthesize"
    THEN "plan" ELSE "synthesize"

\* the routing lambda of the conditional edge: x.get("should_synthesize", False).
\* What _should_synthesize returns is a string, not an update of a state key.
synthesis_edge(p, v) ==
    IF "should_synthesize" \in AgentStateKeys /\ _should_synthesize(p, v) = "synthesize"
    THEN "synthesize" ELSE "plan"

SynthesisDecision ==
    /\ node = "synthesis_decision"
    /\ node' = synthesis_edge(plan, violations)
    /\ obs' = [obs EXCEPT !.prev = "synthesis_decision"]
    /\ UNCHANGED <<constraints, plan, working_set, tool_calls, violations,
                   budget_counters, cache, now, tasks>>

----------------------------------------------------------------------------
(* The graph *)

Next ==
    \/ IntentConstraintExtractor
    \/ Planner
    \/ Router
    \/ ToolExecutor
    \/ Tick
    \/ Verifier
    \/ RepairReplan
    \/ SynthesisDecision

Spec == Init /\ [][Next]_vars

----------------------------------------------------------------------------
(* The Verifier on its own: every pass starts from chosen constraints and a *)
(* chosen working set, and a second pass runs on the unchanged working set. *)

Given(tool_name, id, suffix, value) ==
    [tool_name |-> tool_name, id |-> id, suffix |-> suffix, value |-> value]

\* optional entries of a working set, in the order the steps recorded them
GivenChoices ==
    << {<<>>} \cup {<<Given("flights", "A", "output", [flights |-> fl])>> :
            fl \in {<<Flight(1200, FALSE)>>, <<Flight(400, FALSE), Flight(200, TRUE)>>}},
       {<<>>, <<Given("flights", "A2", "output", [flights |-> <<Flight(1200, FALSE)>>])>>},
       {<<>>, <<Given("flights", "A3", "error", [msg |-> "Input validation failed"])>>},
       {<<>>} \cup {<<Given("lodging", "B", "output", [lodgings |-> ls])>> :
            ls \in {<<[total_price |-> 900]>>,
                    <<[total_price |-> 400], [total_price |-> 500]>>}},
       {<<>>, <<Given("weather", "W", "output", [daily_forecast |-> <<[is_rainy |-> TRUE]>>])>>},
       {<<>>, <<Given("events", "E", "output",
                      [events |-> <<[kid_friendly |-> TRUE, museum |-> FALSE]>>])>>} >>

GivenLists ==
    {g[1] \o g[2] \o g[3] \o g[4] \o g[5] \o g[6] :
        g \in {h \in [1..6 -> UNION {GivenChoices[i] : i \in 1..6}] :
                  \A i \in 1..6 : h[i] \in GivenChoices[i]}}

RECURSIVE WorkingSetOf(_, _)
WorkingSetOf(ws, given) ==
    IF given = <<>> THEN ws
    ELSE WorkingSetOf(DictPut(ws, StepKey(Head(given), Head(given).suffix),
                              Head(given).value),
                      Tail(given))

VerifierConstraintChoices ==
    {b \o o \o q :
        b \in {<<>>} \cup {<<Constraint("budget", limit)>> : limit \in {600, 2000, 2100}},
        o \in {<<>>, <<Constraint("preferences", "Avoid overnight flights")>>},
        q \in {<<>>, <<Constraint("preferences", "kid-friendly")>>,
                     <<Constraint("preferences", "art museums")>>}}

InitVerifier ==
    /\ node = "verify"
    /\ constraints \in VerifierConstraintChoices
    /\ \E given \in GivenLists :
          /\ working_set =
                WorkingSetOf(<< <<<<"extracted", "data">>, [user_message |-> "trip"]>> >>,
                             given)
          /\ obs = [NoObs EXCEPT !.given = given]
    /\ plan = <<>>
    /\ tool_calls = <<>>
    /\ violations = <<>>
    /\ budget_counters = BudgetCounter
    /\ cache = [t \in Registered |-> {}]
    /\ now = 0
    /\ tasks = <<>>

\* the Verifier is called once more, nothing else having run
Reverify ==
    /\ node \in {"repair", "synthesis_decision"}
    /\ obs.verified = <<>>
    /\ node' = "verify"
    /\ obs' = [obs EXCEPT !.verified =
                  <<[violations |-> violations, budget_counters |-> budget_counters]>>]
    /\ UNCHANGED <<constraints, plan, working_set, tool_calls, violations,
                   budget_counters, cache, now, tasks>>

NextVerifier == Verifier \/ Reverify

SpecVerifier == InitVerifier /\ [][NextVerifier]_vars

FairSpec == Spec /\ WF_vars(Next)

\* the steps the program takes by itself: the graph runner and the event loop
\* go on whenever they can; that an awaited _execute comes back is up to the
\* tool and what it waits for
LoopStep ==
    \/ IntentConstraintExtractor
    \/ Planner
    \/ Router
    \/ ExecuteDispatch
    \/ \E k \in 1..Len(tasks) : TaskStart(k)
    \/ \E k \in 1..Len(tasks) : SleepEnds(k)
    \/ ExecuteJoin
    \/ Verifier
    \/ RepairReplan
    \/ SynthesisDecision

FairLoopSpec == Spec /\ WF_vars(LoopStep)

----------------------------------------------------------------------------
(* The tool wrapper on its own: the Executor runs a batch of chosen steps,  *)
(* and runs the same steps again after some time.                           *)

EventArgs ==
    << <<"destination", "Kyoto">>, <<"start_date", "2025-10-01">>,
       <<"end_date", "2025-10-08">> >>

TransitArgs == << <<"origin", "Kyoto">>, <<"destination", "Osaka">> >>

\* fails FlightSearchInput: departure_date is not a date
BadFlightArgs ==
    << <<"origin", "LAX">>, <<"destination", "NRT">>,
       <<"departure_date", "tomorrow">> >>

\* the steps as the Router hands them to the Executor
Running(p) == [i \in 1..Len(p) |-> [p[i] EXCEPT !.status = "running"]]

ToolPlans ==
    {Running(<<PlanStep("S", t[1], t[2], <<>>)>>) :
        t \in {<<"flights", FlightArgs>>, <<"flights", BadFlightArgs>>,
               <<"lodging", LodgingArgs>>, <<"lodging", BadLodgingArgs>>,
               <<"events", EventArgs>>, <<"weather", WeatherArgs>>,
               <<"transit", TransitArgs>>, <<"rag", RagArgs>>}}
        \cup {Running(PlanWW)}

\* minutes between two runs of the Executor
Elapsed == {0, 5, 10, 15}

InitTool ==
    /\ node = "execute_tools"
    /\ plan \in ToolPlans
    /\ constraints = <<>>
    /\ working_set = <<>>
    /\ tool_calls = <<>>
    /\ violations = <<>>
    /\ budget_counters = BudgetCounter
    /\ cache = [t \in Registered |-> {}]
    /\ now = 0
    /\ tasks = <<>>
    /\ obs = NoObs

\* the Executor is called once more on the same steps, nothing else having run
Reinvoke ==
    /\ node = "verify"
    /\ Len(tool_calls) + Len(plan) <= MaxInvocations
    /\ \E d \in Elapsed : /\ now + d <= MaxClock
                          /\ now' = now + d
    /\ plan' = Running(plan)
    /\ node' = "execute_tools"
    /\ obs' = [obs EXCEPT !.prev = "verify"]
    /\ UNCHANGED <<constraints, working_set, tool_calls, violations,
                   budget_counters, cache, tasks>>

NextTool == ToolExecutor \/ Reinvoke

SpecTool == InitTool /\ [][NextTool]_vars

----------------------------------------------------------------------------
(* Properties *)

Settled(p) == \A i \in 1..Len(p) : p[i].status \in {"completed", "failed"}

\* C1 - Dependency gating: whenever the Router changes a step's status to
\* running, the step was pending and every id in its dependencies names a step
\* of the plan whose status is completed at that moment.
C1_DependencyGating ==
    [][node = "route_tools"
       => /\ Len(plan') = Len(plan)
          /\ \A i \in 1..Len(plan) :
                (plan'[i].status = "running" /\ plan[i].status # "running")
                => /\ plan[i].status = "pending"
                   /\ \A d \in 1..Len(plan[i].dependencies) :
                         \E j \in 1..Len(plan) :
                            /\ plan[j].id = plan[i].dependencies[d]
                            /\ plan[j].status = "completed"]_vars

\* a step with a dependency has just been marked running
C1_Witness ==
    /\ node = "execute_tools"
    /\ obs.prev = "route_tools"
    /\ \E i \in 1..Len(plan) : /\ plan[i].status = "running"
                               /\ plan[i].dependencies # <<>>
                               /\ i \in Range(obs.executable_steps)

\* C2 - Cache correctness: of two finished invocations of the same tool with
\* canonically-equal args started less than the TTL apart, when the earlier one
\* returned success the later one is a cache hit that did not run _execute.
C2_CacheCorrectness ==
    \A i, j \in 1..Len(obs.invocations) :
        LET a == obs.invocations[i]
            b == obs.invocations[j]
        IN (/\ i < j
            /\ a.tool = b.tool
            /\ a.key = b.key
            /\ a.done /\ b.done
            /\ b.start - a.start < CacheTTL
            /\ a.success)
           => (b.cached /\ b.runs = 0)

\* C3 - Fan-out/fan-in barrier: during execute_tools no step status, working-set
\* entry or tool-call record is written until every coroutine of the batch has
\* returned, and what is then recorded for each step is the result its own tool
\* call returned before any write of the batch.
C3_Barrier ==
    [][(node = "execute_tools"
          /\ (plan' # plan \/ working_set' # working_set \/ tool_calls' # tool_calls))
       => /\ tasks # <<>>
          /\ \A k \in 1..Len(tasks) : tasks[k].pc = "done"
          /\ \A k \in 1..Len(tasks) :
                LET step == plan[tasks[k].step]
                    r == tasks[k].result
                IN DictGet(working_set',
                           StepKey(step, IF r.success THEN "output" ELSE "error"))
                     = (IF r.success THEN r.data ELSE r.error)]_vars

\* a batch of two steps has been recorded
C3_Witness ==
    /\ node = "verify"
    /\ obs.prev = "execute_tools"
    /\ Len(obs.executable_steps) = 2
    /\ \A k \in 1..2 : plan[obs.executable_steps[k]].status \in {"completed", "failed"}

\* C4 - Idempotent verification: a second Verifier pass on the same constraints
\* and the unchanged working set yields the violation list and the budget
\* counters of the first pass.
C4_IdempotentVerification ==
    (obs.verified # <<>> /\ node # "verify")
    => /\ violations = obs.verified[1].violations
       /\ budget_counters = obs.verified[1].budget_counters

\* a second pass has run on a working set with costs and violations
C4_Witness ==
    /\ obs.verified # <<>>
    /\ node # "verify"
    /\ violations # <<>>
    /\ budget_counters.total > 0

\* C5 - Repair clears the violation list: the list RepairReplan passes on is
\* empty whatever it did to the plan, and a non-empty list only ever comes from
\* a Verifier pass.
C5_RepairClearsViolations ==
    [][/\ node = "repair" => violations' = <<>>
       /\ (violations' # violations /\ violations' # <<>>) => node = "verify"]_vars

\* repair has run and the Verifier would still report a violation
C5_Witness ==
    /\ obs.prev = "repair"
    /\ node = "plan"
    /\ violations = <<>>
    /\ VerifierViolations(constraints, working_set, budget_counters) # <<>>

\* the scenario of C6: A without dependencies has failed, B depends on A
ScenarioAFailed ==
    /\ Len(plan) = 2
    /\ plan[1].id = "A" /\ plan[1].dependencies = <<>> /\ plan[1].status = "failed"
    /\ plan[2].id = "B" /\ plan[2].dependencies = <<"A">> /\ plan[2].status = "pending"

\* the Router cannot go on within the bound on tool calls
CallBudgetSpent ==
    /\ node = "route_tools"
    /\ Len(tool_calls) + Cardinality(executable_steps(plan)) > MaxToolCalls

\* C6 - Non-progress is reported, not looped on: a run does not stay for ever
\* in the loop with A failed and B waiting for it; it reaches a terminal node
\* (END, or an abort) unless the plan is changed.
C6_NonProgressReported ==
    [](ScenarioAFailed
         => <>(node \in {"END", "aborted"} \/ CallBudgetSpent \/ ~ScenarioAFailed))

\* C7 - Terminal condition reached: when the synthesis decision finds every
\* step completed or failed and no violation, the next node is synthesize.
C7_TerminalReached ==
    [][(node = "synthesis_decision" /\ Settled(plan) /\ violations = <<>>)
       => node' = "synthesize"]_vars

\* C8 - Completion only when settled: synthesize is entered only from the
\* synthesis decision with every step completed or failed and no violation;
\* with a step pending or running the loop goes back to plan.
C8_CompletionOnlyWhenSettled ==
    [][/\ (node' = "synthesize" /\ node # "synthesize")
            => (node = "synthesis_decision" /\ Settled(plan) /\ violations = <<>>)
       /\ (node = "synthesis_decision" /\ ~Settled(plan)) => node' = "plan"]_vars

\* the synthesis decision has sent a plan with a waiting step back to plan
C8_Witness ==
    /\ obs.prev = "synthesis_decision"
    /\ node = "plan"
    /\ \E i \in 1..Len(plan) : plan[i].status = "pending"

\* the costs among the tool outputs put into the working set
GivenPrices(marker, field, price) ==
    LET g == SelectSeq(obs.given,
                       LAMBDA e : e.tool_name = marker /\ e.suffix = "output")
        items == Flatten([i \in 1..Len(g) |-> g[i].value[field]])
    IN SumSeq([i \in 1..Len(items) |-> items[i][price]])

\* C9 - Budget check: with a Budget constraint of limit L a Verifier pass sets
\* total to the sum of all flight prices and lodging total prices of the
\* working set and reports exactly one critical budget violation when
\* total > L, none when total <= L.
C9_BudgetCheck ==
    (node # "verify" /\ obs.given # <<>>)
    => \A c \in 1..Len(constraints) :
          constraints[c].type = "budget"
          => LET L == constraints[c].value
                 total == GivenPrices("flights", "flights", "price_usd")
                            + GivenPrices("lodging", "lodgings", "total_price")
                 found == SelectSeq(violations, LAMBDA v : v.constraint_type = "budget")
             IN /\ budget_counters.total = total
                /\ IF total > L
                   THEN /\ Len(found) = 1
                        /\ found[1].severity = "critical"
                        /\ found[1].description = <<"exceeds", total, L>>
                   ELSE found = <<>>

\* limit 2000, flights 1200, lodging 900: total 2100, one critical violation
C9_Witness ==
    /\ node # "verify"
    /\ BudgetLimit(constraints) = 2000
    /\ budget_counters.flights = 1200
    /\ budget_counters.lodging = 900
    /\ budget_counters.total = 2100
    /\ Violation("budget", <<"exceeds", 2100, 2000>>, "critical") \in Range(violations)

\* C10 - Tool errors never abort the run: execute_tools always returns and the
\* run goes on to verify.
C10_ToolErrorsNeverAbort ==
    [][node = "execute_tools" => node' \in {"execute_tools", "verify"}]_vars

\* C11 - Executor result recording: when execute_tools returns, every step that
\* was running is completed with its result data under <<tool, id, "output">>
\* when its tool call succeeded, failed with the error under
\* <<tool, id, "error">> when it did not, and every other step is as it was.
C11_ExecutorRecording ==
    [][(node = "execute_tools" /\ node' = "verify")
       => /\ Len(plan') = Len(plan)
          /\ \A i \in 1..Len(plan) :
                IF plan[i].status = "running"
                THEN \E k \in 1..Len(tasks) :
                        /\ tasks[k].step = i
                        /\ LET r == tasks[k].result
                               key == <<plan[i].tool_name, plan[i].id,
                                        IF r.success THEN "output" ELSE "error">>
                           IN /\ plan'[i] = [plan[i] EXCEPT !.status =
                                    IF r.success THEN "completed" ELSE "failed"]
                              /\ key \in DictKeys(working_set')
                              /\ DictGet(working_set', key)
                                    = (IF r.success THEN r.data ELSE r.error)
                ELSE plan'[i] = plan[i]]_vars

\* a batch with one successful and one failed tool call has been recorded
C11_Witness ==
    /\ node = "verify"
    /\ obs.prev = "execute_tools"
    /\ \E i, j \in 1..Len(plan) :
          /\ plan[i].status = "completed"
          /\ <<plan[i].tool_name, plan[i].id, "output">> \in DictKeys(working_set)
          /\ plan[j].status = "failed"
          /\ <<plan[j].tool_name, plan[j].id, "error">> \in DictKeys(working_set)

\* C12 - Bounded retries: one call of BaseTool.execute with max_retries = n
\* calls _execute at most n + 1 times; it returns the result of the first
\* attempt that does not raise; when every attempt raised it has made exactly
\* n + 1 attempts and returns success = false with an error that holds n + 1
\* and the last exception; it sleeps once after each attempt but the last.
C12_BoundedRetries ==
    \A k \in 1..Len(tasks) :
        tasks[k].inv # 0
        => LET iv == obs.invocations[tasks[k].inv]
               r == tasks[k].result
               n == MaxRetries
               raised == Len(iv.errors)
           IN /\ iv.runs <= n + 1
              /\ raised <= iv.runs
              /\ iv.sleeps <= n
              /\ tasks[k].pc = "sleeping" => (iv.sleeps = iv.runs /\ raised = iv.runs)
              /\ (tasks[k].pc = "done" /\ iv.runs > 0)
                 => /\ iv.sleeps = iv.runs - 1
                    /\ IF raised = iv.runs
                       THEN /\ iv.runs = n + 1
                            /\ ~r.success
                            /\ r.error.attempts = n + 1
                            /\ r.error.last_error = iv.errors[raised]
                       ELSE /\ raised = iv.runs - 1
                            /\ \E o \in ExecuteOutcomes(iv.tool) : r = o.output

\* a call has returned after two attempts that raised different exceptions
C12_Witness ==
    \E k \in 1..Len(tasks) :
        /\ tasks[k].pc = "done"
        /\ tasks[k].inv # 0
        /\ obs.invocations[tasks[k].inv].runs = MaxRetries + 1
        /\ obs.invocations[tasks[k].inv].errors = <<"timeout", "connection reset">>
        /\ tasks[k].result.error.last_error = "connection reset"

\* C13 - Validation failure is terminal: a call of BaseTool.execute that misses
\* the cache with args its input schema rejects returns success = false with
\* the validation error, without a call of _execute, without a retry or a
\* sleep, and with the cache as it was.
C13_ValidationTerminal ==
    [][\A k \in 1..Len(tasks) :
          LET step == plan[tasks[k].step]
          IN (/\ node = "execute_tools"
              /\ Len(tasks') = Len(tasks)
              /\ tasks[k].pc = "created"
              /\ tasks'[k].pc # "created"
              /\ step.tool_name \in Registered
              /\ step.args \in {BadFlightArgs, BadLodgingArgs}
              /\ Fresh(cache[step.tool_name], _get_cache_key(step.args), now) = {})
             => /\ tasks'[k].pc = "done"
                /\ ~tasks'[k].result.success
                /\ tasks'[k].result.data = None
                /\ tasks'[k].result.error = [msg |-> "Input validation failed"]
                /\ cache' = cache
                /\ obs'.invocations[tasks'[k].inv].runs = 0
                /\ obs'.invocations[tasks'[k].inv].sleeps = 0]_vars

\* a call with a date that is not a date has returned the validation error
C13_Witness ==
    \E k \in 1..Len(tasks) :
        /\ tasks[k].pc = "done"
        /\ plan[tasks[k].step].args = BadFlightArgs
        /\ tasks[k].result.error = [msg |-> "Input validation failed"]
        /\ obs.invocations[tasks[k].inv].runs = 0

\* invocation j is the next one with the args of invocation i, which returned
\* success = false before j started (no other call with these args ran beside
\* or after i)
NextAfterFailure(i, j) ==
    LET a == obs.invocations[i]
        b == obs.invocations[j]
    IN /\ i < j
       /\ a.tool = b.tool /\ a.key = b.key
       /\ a.done /\ ~a.success
       /\ b.done
       /\ a.batch < b.batch
       /\ \A m \in 1..(j - 1) :
             (m # i /\ obs.invocations[m].tool = a.tool /\ obs.invocations[m].key = a.key)
             => obs.invocations[m].batch < a.batch

CacheHoldsSuccesses ==
    \A t \in Registered : \A e \in cache[t] : e.result.success

\* C14 - No cache poisoning: every cache entry holds a result with
\* success = true, and the next call with the args of a call that returned
\* success = false misses the cache and goes through the miss path again: it
\* calls _execute when the args pass the input schema, and returns the
\* validation error without calling it when they do not.
C14_NoCachePoisoning ==
    /\ CacheHoldsSuccesses
    /\ \A i, j \in 1..Len(obs.invocations) :
          NextAfterFailure(i, j)
          => LET b == obs.invocations[j]
             IN /\ ~b.cached
                /\ b.valid => b.runs >= 1
                /\ ~b.valid => b.runs = 0

\* C14 as stated - the next call with the args of a call that returned
\* success = false always calls _execute again.
C14_AlwaysRunsAgain ==
    /\ CacheHoldsSuccesses
    /\ \A i, j \in 1..Len(obs.invocations) :
          NextAfterFailure(i, j)
          => (~obs.invocations[j].cached /\ obs.invocations[j].runs >= 1)

\* a call whose attempts all raised, and a call reporting a failure, have each
\* been followed by a call with the same args that called _execute again
C14_Witness ==
    \E i, j \in 1..Len(obs.invocations) :
        /\ NextAfterFailure(i, j)
        /\ obs.invocations[i].runs >= 1
        /\ obs.invocations[j].runs >= 1
        /\ ~obs.invocations[j].cached
        /\ obs.invocations[j].success

\* C15 - Cache TTL: a call that finds a cache entry younger than the TTL
\* returns the stored result with cached = true without calling _execute; a
\* call that finds an entry at least TTL old removes it and takes the miss
\* path: it returns a result with cached = false, after calling _execute when
\* the args are valid, and stores that result again exactly when it succeeded.
C15_CacheTTL ==
    [][\A k \in 1..Len(tasks) :
          (/\ node = "execute_tools"
           /\ Len(tasks') = Len(tasks)
           /\ plan[tasks[k].step].tool_name \in Registered)
          => LET t == plan[tasks[k].step].tool_name
                 key == _get_cache_key(plan[tasks[k].step].args)
                 iv == obs'.invocations[tasks'[k].inv]
                 r == tasks'[k].result
             IN /\ (tasks[k].pc = "created" /\ tasks'[k].pc # "created")
                   => \A e \in cache[t] :
                         e.key = key
                         => IF now - e.timestamp < CacheTTL
                            THEN /\ tasks'[k].pc = "done"
                                 /\ r = [e.result EXCEPT !.cached = TRUE]
                                 /\ iv.cached /\ iv.runs = 0
                                 /\ \E f \in cache'[t] :
                                       f.key = key /\ f.timestamp = e.timestamp
                            ELSE /\ e \notin cache'[t]
                                 /\ ~iv.cached
                /\ (tasks[k].pc # "done" /\ tasks'[k].pc = "done"
                      /\ iv.stamps # {} /\ ~iv.cached)
                   => /\ ~r.cached
                      /\ iv.valid => iv.runs >= 1
                      /\ r.success
                           <=> [key |-> key, result |-> r, timestamp |-> now]
                                  \in cache'[t]]_vars

\* a call has found an entry of exactly the TTL, run the tool and succeeded
C15_Witness ==
    \E j \in 1..Len(obs.invocations) :
        LET iv == obs.invocations[j]
        IN /\ iv.stamps = {iv.start - CacheTTL}
           /\ iv.done /\ iv.success /\ ~iv.cached
           /\ iv.runs >= 1
           /\ \E e \in cache[iv.tool] : e.key = iv.key /\ e.timestamp = iv.start

\* C16 - Per-call timeout: every call of BaseTool.execute returns, also when
\* the _execute it awaits never comes back, so every batch handed to gather is
\* joined and execute_tools returns.
C16_PerCallTimeout == (tasks # <<>>) ~> (tasks = <<>>)

\* C17 - Failed is terminal except through Repair: a step that is failed keeps
\* that status in every later state of the plan (so the Router never selects
\* it and the Executor never runs it again), unless RepairReplan sets it back
\* to pending; the Planner, the Router, the Executor and the Verifier never
\* take a step out of failed.
C17_FailedIsTerminal ==
    [][\A i \in 1..Len(plan) : \A j \in 1..Len(plan') :
          (plan[i].status = "failed" /\ plan'[j].id = plan[i].id)
          => \/ plan'[j].status = "failed"
             \/ node = "repair" /\ plan'[j].status = "pending"]_vars

\* C18 - Planner refinement keeps the plan: a Planner call on a non-empty plan
\* returns a plan that starts with the steps of the current plan, each as it
\* was (id, tool, args, dependencies, status); it may only append steps.
C18_PlannerKeepsPlan ==
    [][(node = "plan" /\ plan # <<>>)
       => /\ Len(plan') >= Len(plan)
          /\ \A i \in 1..Len(plan) : plan'[i] = plan[i]]_vars

\* C19 - Budget counters track the working set: after a Verifier pass, with or
\* without a Budget constraint, the flights counter is the sum of the flight
\* prices in the working set, the lodging counter the sum of the lodging total
\* prices, and total the sum of the category counters.
C19_CountersTrackWorkingSet ==
    node # "verify"
    => /\ budget_counters.flights = GivenPrices("flights", "flights", "price_usd")
       /\ budget_counters.lodging = GivenPrices("lodging", "lodgings", "total_price")
       /\ budget_counters.total =
             budget_counters.flights + budget_counters.lodging
               + budget_counters.activities + budget_counters.transport
               + budget_counters.food

\* every Verifier pass of the run finds a violation
EveryPassViolates ==
    [](node = "verify"
         => VerifierViolations(constraints, working_set, budget_counters) # <<>>)

\* C20 - No iteration cap: nothing bounds the number of iterations or repairs.
\* A run whose every Verifier pass finds a violation never reaches synthesize
\* or END and comes back to repair again and again, for as long as the tools
\* can be called.
C20_NoIterationCap ==
    EveryPassViolates
    => /\ [](node \notin {"synthesize", "END"})
       /\ \/ []<>(node = "repair")
          \/ <>[](CallBudgetSpent \/ node = "aborted")

\* the run is in repair again after an earlier repair
C20_Witness ==
    /\ node = "repair"
    /\ obs.prev = "verify"
    /\ violations # <<>>
    /\ <<"repair", "reasoning">> \in DictKeys(working_set)

\* the step has a dependency id that names no step of the plan
Dangling(p, step) ==
    \E d \in 1..Len(step.dependencies) :
        \A j \in 1..Len(p) : p[j].id # step.dependencies[d]

\* C21 - Dangling dependencies block without crashing: the Router never marks
\* running a pending step with a dependency id that names no step of the plan
\* (never there, or removed by RepairReplan), and it returns normally on such
\* a plan: the run goes on to execute_tools.
C21_DanglingDependenciesBlock ==
    [][(node = "route_tools" /\ \E i \in 1..Len(plan) : Dangling(plan, plan[i]))
       => /\ node' = "execute_tools"
          /\ Len(plan') = Len(plan)
          /\ \A i \in 1..Len(plan) :
                (plan[i].status = "pending" /\ Dangling(plan, plan[i]))
                => plan'[i] = plan[i]]_vars

\* the Router has passed over a step whose dependency was removed by a repair
C21_Witness ==
    /\ node = "execute_tools"
    /\ obs.prev = "route_tools"
    /\ <<"repair", "reasoning">> \in DictKeys(working_set)
    /\ \E i \in 1..Len(plan) :
          /\ plan[i].status = "pending"
          /\ plan[i].dependencies = <<"A">>
          /\ Dangling(plan, plan[i])

\* C22 - Repair modify: a modify naming a step of the plan merges new_args
\* into the step's args (a key of new_args takes its value, every other key
\* keeps its own) and sets the step to pending; every other step, also a
\* completed step that depends on it, is as it was; a modify naming no step
\* of the plan leaves the plan as it was.
C22_RepairModify ==
    [][(/\ node = "repair"
        /\ violations # <<>>
        /\ Len(obs'.suggestions) = 1
        /\ obs'.suggestions[1].action = "modify")
       => LET sg == obs'.suggestions[1]
              S == {i \in 1..Len(plan) : plan[i].id = sg.step_id}
          IN IF S = {} THEN plan' = plan
             ELSE LET i == CHOOSE x \in S : \A y \in S : x <= y
                      old == plan[i].args
                      new == plan'[i].args
                  IN /\ Len(plan') = Len(plan)
                     /\ \A j \in 1..Len(plan) : j # i => plan'[j] = plan[j]
                     /\ plan'[i] = [plan[i] EXCEPT !.args = new, !.status = "pending"]
                     /\ DictKeys(new) = DictKeys(old) \cup DictKeys(sg.new_args)
                     /\ \A k \in DictKeys(sg.new_args) :
                           DictGet(new, k) = DictGet(sg.new_args, k)
                     /\ \A k \in DictKeys(old) \ DictKeys(sg.new_args) :
                           DictGet(new, k) = DictGet(old, k)]_vars

\* completed step A has been modified: it is pending with the new date and
\* its other args, and B, which depends on it, is still completed
C22_Witness ==
    /\ node = "plan"
    /\ obs.prev = "repair"
    /\ obs.suggestions = <<Modify("A", << <<"departure_date", "2025-10-08">> >>)>>
    /\ Len(plan) = 2
    /\ plan[1].id = "A" /\ plan[1].status = "pending"
    /\ DictGet(plan[1].args, "departure_date") = "2025-10-08"
    /\ DictGet(plan[1].args, "origin") = "LAX"
    /\ plan[2].dependencies = <<"A">> /\ plan[2].status = "completed"

\* step i of p is pending and each of its dependencies is a completed step
Ready(p, i) ==
    /\ p[i].status = "pending"
    /\ \A d \in 1..Len(p[i].dependencies) :
          /\ FindStep(p, p[i].dependencies[d]) # 0
          /\ p[FindStep(p, p[i].dependencies[d])].status = "completed"

\* C23 - The Router selects every ready step at once: after a Router call
\* every step that was pending with all dependencies completed is running,
\* however many there are, and no step of the resulting plan is ready, so a
\* second call on it would select nothing and change no status.
C23_RouterSelectsAllReady ==
    [][node = "route_tools"
       => /\ Len(plan') = Len(plan)
          /\ \A i \in 1..Len(plan) : Ready(plan, i) => plan'[i].status = "running"
          /\ \A i \in 1..Len(plan') : ~Ready(plan', i)]_vars

\* two ready steps have been marked running by one Router call
C23_Witness ==
    /\ node = "execute_tools"
    /\ obs.prev = "route_tools"
    /\ Len(obs.executable_steps) = 2
    /\ \A k \in 1..2 : plan[obs.executable_steps[k]].status = "running"

\* C24 - Node ordering of the control loop: extract_constraints runs first and
\* only once and is followed by plan; plan is followed by route_tools and
\* route_tools by execute_tools; execute_tools is entered only from
\* route_tools and verify only from execute_tools; verify is followed by
\* repair or by the synthesis decision; repair is followed by plan.
C24_NodeOrdering ==
    [][/\ node' # node
          => /\ node' # "extract_constraints"
             /\ node' = "execute_tools" => node = "route_tools"
             /\ node' = "verify" => node = "execute_tools"
             /\ node' = "route_tools" => node = "plan"
             /\ node' = "plan"
                  => node \in {"extract_constraints", "repair", "synthesis_decision"}
       /\ node = "extract_constraints" => node' = "plan"
       /\ node = "plan" => node' = "route_tools"
       /\ node = "route_tools" => node' = "execute_tools"
       /\ node = "verify" => node' \in {"repair", "synthesis_decision"}
       /\ node = "repair" => node' = "plan"]_vars

\* the loop is in its second round: route_tools again, after a repair
C24_Witness ==
    /\ node = "route_tools"
    /\ obs.prev = "plan"
    /\ <<"repair", "reasoning">> \in DictKeys(working_set)
    /\ tool_calls # <<>>

\* C25 - Verify routes to repair iff there is a violation: after a Verifier
\* pass the next node is repair exactly when the violation list it returned is
\* non-empty, whatever the severities in it, and the synthesis decision
\* otherwise.
C25_VerifyRoutesToRepair ==
    [][node = "verify"
       => /\ violations' # <<>> => node' = "repair"
          /\ violations' = <<>> => node' = "synthesis_decision"]_vars

\* a pass that found nothing above severity info has led to repair
C25_Witness ==
    /\ node = "repair"
    /\ obs.prev = "verify"
    /\ violations # <<>>
    /\ \A i \in 1..Len(violations) : violations[i].severity = "info"

\* C26 - The working set is append-only: after extract_constraints no step of
\* plan, route_tools, execute_tools, verify or repair removes a key from the
\* working set; the set of keys only grows (the value under a key may be
\* replaced when its step runs again).
C26_WorkingSetAppendOnly ==
    [][node # "extract_constraints"
       => DictKeys(working_set) \subseteq DictKeys(working_set')]_vars

\* step A has run twice: its second output has replaced the first under the
\* same key, beside the entries of the extractor, the Planner and the repair
C26_Witness ==
    /\ node = "verify"
    /\ Len(tool_calls) = 2
    /\ tool_calls[1].tool_name = "flights" /\ tool_calls[2].tool_name = "flights"
    /\ tool_calls[1].result # tool_calls[2].result
    /\ <<"flights", "A", "output">> \in DictKeys(working_set)
    /\ DictGet(working_set, <<"flights", "A", "output">>) = tool_calls[2].result
    /\ {<<"extracted", "data">>, <<"planner", "reasoning">>, <<"repair", "reasoning">>}
          \subseteq DictKeys(working_set)

\* C27 - Tool-call audit trail: an Execute phase leaves the records of the log
\* as they were and appends one record for each step that was running at its
\* start, in order, also for a step whose result came from the cache, and the
\* record of such a step is flagged as cached.
C27_AuditTrail ==
    [][(node = "execute_tools" /\ node' = "verify")
       => LET todo == steps_to_execute(plan)
          IN /\ Len(tool_calls') = Len(tool_calls) + Len(todo)
             /\ \A r \in 1..Len(tool_calls) : tool_calls'[r] = tool_calls[r]
             /\ \A k \in 1..Len(todo) :
                   LET rec == tool_calls'[Len(tool_calls) + k]
                   IN /\ rec.tool_name = plan[todo[k]].tool_name
                      /\ rec.args = plan[todo[k]].args
                      /\ tasks[k].result.cached
                           => ("cached" \in DOMAIN rec /\ rec.cached)]_vars

\* C28 - Verifier purity: the violations and the budget counters of a Verifier
\* pass are what the constraints and the working set give from fresh counters,
\* whatever the previous violations, the previous counters and the plan are,
\* and the pass leaves plan, working set, constraints and tool-call log as they
\* were.
C28_VerifierPurity ==
    [][node = "verify"
       => /\ violations' = VerifierViolations(constraints, working_set, BudgetCounter)
          /\ budget_counters' = VerifierCounters(constraints, working_set, BudgetCounter)
          /\ UNCHANGED <<plan, working_set, constraints, tool_calls>>]_vars

\* a Verifier pass has run after a second Execute phase, the first phase having
\* put priced flights under a Budget constraint into the working set: the pass
\* started from counters that were not 0
C28_Witness ==
    /\ obs.prev = "verify"
    /\ node \in {"repair", "synthesis_decision"}
    /\ BudgetLimit(constraints) # 0
    /\ budget_counters.total > 0
    /\ plan # <<>>
    /\ \E i, j \in 1..Len(obs.invocations) :
          /\ obs.invocations[i].batch = 0
          /\ obs.invocations[i].tool = "flights"
          /\ obs.invocations[i].success
          /\ obs.invocations[j].batch > 0
          /\ obs.invocations[j].done

\* no step of the plan has status running
NoneRunning(p) == \A i \in 1..Len(p) : p[i].status # "running"

\* C29 - Running is confined to Route..Execute: no step is running at the start
\* of a Verify, Repair, Plan or Route step; a step becomes running only by the
\* Router call that selects it, and when the Execute phase that follows ends
\* every running step is completed or failed.
C29_RunningConfined ==
    [][/\ node \in {"verify", "repair", "plan", "route_tools"} => NoneRunning(plan)
       /\ \A i \in 1..Len(plan') :
              (plan'[i].status = "running" /\ ~(i <= Len(plan) /\ plan[i] = plan'[i]))
              => /\ node = "route_tools"
                 /\ i \in executable_steps(plan)
       /\ (node = "execute_tools" /\ node' # "execute_tools")
              => /\ Len(plan') = Len(plan)
                 /\ \A i \in 1..Len(plan) :
                        plan[i].status = "running"
                        => plan'[i].status \in {"completed", "failed"}]_vars

\* the entries <<tool, id, "output">> of the working set written for tool t
OutputEntries(ws, t) ==
    SelectSeq(ws, LAMBDA e : Len(e[1]) = 3 /\ e[1][1] = t /\ e[1][3] = "output")

\* the flights, lodgings or events listed in all the output entries of tool t
ItemsOf(ws, t, field) ==
    LET o == OutputEntries(ws, t)
    IN Flatten([i \in 1..Len(o) |-> o[i][2][field]])

\* the output entry e outlives its step: RepairReplan has removed the step, or
\* the step has failed after the run that wrote e
Outlives(e) ==
    /\ Len(e[1]) = 3
    /\ e[1][3] = "output"
    /\ \/ e[1][2] \in obs.removed /\ FindStep(plan, e[1][2]) = 0
       \/ \E i \in 1..Len(plan) : /\ plan[i].id = e[1][2]
                                   /\ plan[i].tool_name = e[1][1]
                                   /\ plan[i].status = "failed"

\* the working set holds an output entry that outlives its step
SomeOutlives == \E k \in 1..Len(working_set) : Outlives(working_set[k])

\* C30 - Outputs outlive their step: a repair and a failing run leave every
\* output entry in the working set as it is, and every Verifier pass over a
\* working set with an output entry of a removed or failed step counts all
\* output entries in the budget totals and in the flight and event checks.
C30_OutputsOutliveStep ==
    [][/\ (node = "repair" \/ (node = "execute_tools" /\ node' = "verify"))
          => \A k \in 1..Len(working_set) :
                LET e == working_set[k]
                IN (/\ Len(e[1]) = 3
                    /\ e[1][3] = "output"
                    /\ \A i \in 1..Len(plan') :
                           (plan'[i].id = e[1][2] /\ plan'[i].tool_name = e[1][1])
                           => plan'[i].status # "completed")
                   => \E m \in 1..Len(working_set') : working_set'[m] = e
       /\ (node = "verify" /\ SomeOutlives)
          => LET fl == ItemsOf(working_set, "flights", "flights")
                 lo == ItemsOf(working_set, "lodging", "lodgings")
                 flights == SumSeq([i \in 1..Len(fl) |-> fl[i].price_usd])
                 lodging == SumSeq([i \in 1..Len(lo) |-> lo[i].total_price])
                 late == SelectSeq(violations', LAMBDA v : v.description[1] = "overnight")
             IN /\ budget_counters'.flights = flights
                /\ budget_counters'.lodging = lodging
                /\ budget_counters'.total = flights + lodging
                /\ (\E c \in 1..Len(constraints) :
                        /\ constraints[c].type = "preferences"
                        /\ constraints[c].value = "Avoid overnight flights")
                   => Len(late) = Len(SelectSeq(fl, LAMBDA f : f.overnight))]_vars

====
